---- MODULE Spec2Model ----
(***************************************************************************)
(* Pac-Mon: the paginated, capped trace download of ApiProvider.getTraces  *)
(* (contexts/ApiContext.jsx, latest revision) and the facet / filter       *)
(* pipeline of App.filterTraces (components/App/App.jsx, latest revision). *)
(*                                                                         *)
(* Arrays of trace records held by the download (tracePages.current, the   *)
(* published traces) are sequences of runs [sid, lo, hi]: the records      *)
(* number lo..hi that the server sent to getTraces invocation sid, in      *)
(* order.  Adjacent contiguous runs are merged, so an array has exactly    *)
(* one representation.                                                     *)
(***************************************************************************)
EXTENDS Integers, Sequences, FiniteSets, TLC

\* ------------------------------------------------------------------------
\* Program constants (env.js)
API_PAGE_SIZE == 500
MAX_PERMITTED_DOWNLOAD_SIZE == 5000

\* ------------------------------------------------------------------------
\* Bounds of the model
MaxInvocations == 3     \* getTraces invocations in one behaviour
MaxSessions == 2        \* invocations whose continuation is alive at a time
MaxOfferedPages == 11   \* the server's totalCount ranges up to this many pages
MaxArbPages == 3        \* pages an inconsistent server is asked for at most

Sessions == 1..MaxSessions

Min(a, b) == IF a < b THEN a ELSE b
Max(a, b) == IF a > b THEN a ELSE b

\* totalCount values a query can have: around every page boundary, and the
\* 20000 of the documented cap scenario
Totals ==
  {k * API_PAGE_SIZE + d : k \in 0..MaxOfferedPages, d \in {0, 1, 200}} \cup {20000}

\* totalCount values reported by a server whose pages need not add up to it
ArbTotals == {0, 700, 20000}

\* totalCount values used when two invocations overlap
OverlapTotals == {1, 501, 1200}

\* ------------------------------------------------------------------------
\* Arrays of records as sequences of runs

Size(buf) ==
  LET RECURSIVE Sum(_)
      Sum(i) == IF i = 0 THEN 0 ELSE (buf[i].hi - buf[i].lo + 1) + Sum(i - 1)
  IN Sum(Len(buf))

\* [...buf, ...data] where data is the records lo..hi sent to invocation s
Spread(buf, s, lo, hi) ==
  IF hi < lo THEN buf
  ELSE IF Len(buf) > 0 /\ buf[Len(buf)].sid = s /\ buf[Len(buf)].hi = lo - 1
       THEN [buf EXCEPT ![Len(buf)].hi = hi]
       ELSE Append(buf, [sid |-> s, lo |-> lo, hi |-> hi])

\* ------------------------------------------------------------------------
\* The remote API.  A consistent server holds total records for the query
\* and serves them limit (= API_PAGE_SIZE) at a time, with a cursor on every
\* page but the last.

PageLen(total, k) == Min(API_PAGE_SIZE, Max(0, total - (k - 1) * API_PAGE_SIZE))
HasNext(total, k) == k * API_PAGE_SIZE < total

\* ------------------------------------------------------------------------
\* Expressions of fetchTraces

CapReached_Inclusive(c) == c * API_PAGE_SIZE >= MAX_PERMITTED_DOWNLOAD_SIZE

CapReached_Late(c) == (c - 1) * API_PAGE_SIZE > MAX_PERMITTED_DOWNLOAD_SIZE

\* counter.current * env.API_PAGE_SIZE > env.MAX_PERMITTED_DOWNLOAD_SIZE
CapReached(c) == c * API_PAGE_SIZE > MAX_PERMITTED_DOWNLOAD_SIZE

\* a page's worth published whatever the total
DownloadedFirst_Page(tc, c) == c * API_PAGE_SIZE

\* data.page.totalCount > env.API_PAGE_SIZE ? counter.current * env.API_PAGE_SIZE
\*                                         : data.page.totalCount
DownloadedFirst(tc, c) == IF tc > API_PAGE_SIZE THEN c * API_PAGE_SIZE ELSE tc

DownloadedNext_Stale(c) == (c - 1) * API_PAGE_SIZE

\* setDownloadedRecordCount(counter.current * env.API_PAGE_SIZE)
DownloadedNext(c) == c * API_PAGE_SIZE

VARIABLES
  counter,                \* counter.current: pages fetched
  tracePages,             \* tracePages.current: accumulation buffer
  localRecordCount,       \* localRecordCount.current
  traces,                 \* published trace set
  recordCount,            \* published total
  donwloadedRecordCount,  \* published progress
  sess,                   \* the getTraces closures and their request in flight
  started,                \* getTraces invocations so far
  evt,                    \* what the last step did
  \* App
  appTraces,              \* traces as App receives it from the context
  selectedNetRomCircuits, selectedPorts, selectedL2Callsigns,
  suppressNodes, suppressUI, suppressNetRom, suppressInp3,
  showOnlyFRMR, showOnlyRoutingInfo,
  iteratingLocalFilter,   \* iteratingLocalFilter.current
  filteredTraces,
  seenNetRomCircuits, seenPorts, seenL2Callsigns,
  phase,                  \* how often filterTraces has run on the drawn input
  prevFiltered,           \* filteredTraces before the last run
  traceStart, traceEnd,   \* the time range of the search form
  showAlert,              \* text of the alert modal, "" while it is hidden
  leftBehind,             \* what the refs held when getTracesNext was called
  search                  \* the query string of window.location

apiVars == <<counter, tracePages, localRecordCount, traces, recordCount,
             donwloadedRecordCount, sess, started, evt>>

criteriaVars == <<selectedNetRomCircuits, selectedPorts, selectedL2Callsigns,
                  suppressNodes, suppressUI, suppressNetRom, suppressInp3,
                  showOnlyFRMR, showOnlyRoutingInfo>>

appVars == <<appTraces, criteriaVars, iteratingLocalFilter, filteredTraces,
             seenNetRomCircuits, seenPorts, seenL2Callsigns, phase,
             prevFiltered>>

searchVars == <<traceStart, traceEnd, showAlert, leftBehind, search>>

vars == <<apiVars, appVars, searchVars>>

Terminal == {"COMPLETED", "CAPPED", "FAILED"}

\* page.next of the last page, and the cursor of a request that has none
NoCursor == 0

IdleSession ==
  [st |-> "idle", id |-> 0, mode |-> "consistent", total |-> 0,
   cursor |-> NoCursor, reqs |-> 0, inflight |-> 0, sent |-> 0, pub |-> <<>>]

NoEvent == [sid |-> 0, kind |-> "none", acc |-> 0, tc |-> 0]

\* ApiProvider after construction
InitApi ==
  /\ counter = 0
  /\ tracePages = <<>>
  /\ localRecordCount = 0
  /\ traces = <<>>
  /\ recordCount = 0
  /\ donwloadedRecordCount = 0
  /\ sess = [s \in Sessions |-> IdleSession]
  /\ started = 0
  /\ evt = NoEvent

\* App after construction (useState / useRef initial values)
InitApp ==
  /\ appTraces = <<>>
  /\ selectedNetRomCircuits = <<>>
  /\ selectedPorts = <<>>
  /\ selectedL2Callsigns = <<>>
  /\ suppressNodes = TRUE
  /\ suppressUI = TRUE
  /\ suppressNetRom = FALSE
  /\ suppressInp3 = FALSE
  /\ showOnlyFRMR = FALSE
  /\ showOnlyRoutingInfo = FALSE
  /\ iteratingLocalFilter = <<>>
  /\ filteredTraces = <<>>
  /\ seenNetRomCircuits = <<>>
  /\ seenPorts = <<>>
  /\ seenL2Callsigns = <<>>
  /\ phase = 0
  /\ prevFiltered = <<>>

\* the refs as useRef() initialises them
NothingLeft == [buffer |-> 0, counter |-> 0, total |-> 0]

\* the search form once the effect run at mount has set it: the last 15
\* minutes, no alert
InitSearch ==
  /\ traceStart = 1
  /\ traceEnd = 2
  /\ showAlert = ""
  /\ leftBehind = NothingLeft
  /\ search = <<>>

Init == InitApi /\ InitApp /\ InitSearch

Active(s) == sess[s].st = "wait"

\* the pages the server may answer the request in flight of session s with
ServerPages(s) ==
  LET k == sess[s].reqs
      T == sess[s].total
  IN IF sess[s].mode = "consistent"
     THEN {[n |-> PageLen(T, k), totalCount |-> T,
            next |-> IF HasNext(T, k) THEN k + 1 ELSE NoCursor]}
     ELSE {[n |-> n, totalCount |-> tc, next |-> nx] :
             n \in {0, 1, API_PAGE_SIZE},
             tc \in (IF k = 1 THEN {T} ELSE {T, 0}),
             nx \in (IF k < MaxArbPages THEN {k + 1, NoCursor} ELSE {NoCursor})}

\* the request sent again with the cursor it already had
RequestCursor_Kept(next, prev) == prev

\* fetchTraces(data.page.next): queryParams.set("cursor", cursor)
RequestCursor(next, prev) == next

\* getTraces(queryParams): fetchTraces() issues the first request, no cursor.
\* The closure of a finished invocation is garbage; the new one takes the
\* first place that holds no live continuation.
Start(s, T, mode) ==
  /\ started < MaxInvocations
  /\ ~Active(s)
  /\ \A r \in Sessions : r < s => Active(r)
  /\ started' = started + 1
  /\ sess' = [sess EXCEPT ![s] =
                [IdleSession EXCEPT !.st = "wait", !.id = started + 1,
                                    !.mode = mode, !.total = T, !.reqs = 1,
                                    !.inflight = 1]]
  /\ evt' = [sid |-> s, kind |-> "start", acc |-> Size(tracePages), tc |-> 0]
  /\ UNCHANGED appVars
  /\ UNCHANGED <<counter, tracePages, localRecordCount, traces, recordCount,
                 donwloadedRecordCount>>

\* an invocation made while no earlier one is still fetching
getTraces(s) ==
  /\ \A r \in Sessions : ~Active(r)
  /\ \E T \in Totals : Start(s, T, "consistent")
  /\ UNCHANGED searchVars

\* the same against a server whose pages need not add up to totalCount
getTracesArb(s) ==
  /\ \A r \in Sessions : ~Active(r)
  /\ \E T \in ArbTotals : Start(s, T, "arbitrary")
  /\ UNCHANGED searchVars

\* an invocation made while an earlier one is still fetching
getTracesOverlap(s) ==
  /\ \E T \in OverlapTotals : Start(s, T, "consistent")
  /\ UNCHANGED searchVars

\* the page's records appended to what the buffer held
BufferAtFirst_Kept(old) == old

\* tracePages.current = [...data.data]: the records of the first page replace
\* whatever the buffer held
BufferAtFirst(old) == <<>>

\* .then(data => ...) of the first fetch
FirstPage(s) ==
  /\ Active(s)
  /\ sess[s].cursor = NoCursor
  /\ \E pg \in ServerPages(s) :
       LET buf == Spread(BufferAtFirst(tracePages), sess[s].id,
                         sess[s].sent + 1, sess[s].sent + pg.n)
           dl  == DownloadedFirst(pg.totalCount, 1)
       IN /\ counter' = 1
          /\ tracePages' = buf
          /\ localRecordCount' = pg.totalCount
          /\ recordCount' = pg.totalCount
          /\ traces' = buf
          /\ donwloadedRecordCount' = dl
          /\ sess' = [sess EXCEPT
                        ![s].sent = @ + pg.n,
                        ![s].pub = Append(@, dl),
                        ![s].st = IF pg.next # NoCursor THEN "wait"
                                  ELSE "COMPLETED",
                        ![s].cursor = IF pg.next # NoCursor
                                      THEN RequestCursor(pg.next, @) ELSE @,
                        ![s].reqs = IF pg.next # NoCursor THEN @ + 1 ELSE @,
                        ![s].inflight = IF pg.next # NoCursor THEN 1 ELSE 0]
          /\ evt' = [sid |-> s, kind |-> "first", acc |-> Size(buf),
                     tc |-> pg.totalCount]
          /\ UNCHANGED <<started, appVars, searchVars>>

\* the total taken from every page
TotalAfterPage_Reported(captured, reported) == reported

\* localRecordCount.current after a response to a request with a cursor:
\* only the first-fetch handler assigns it
TotalAfterPage(captured, reported) == captured

\* the page appended before the cap test
BufferAtCap_Appended(old, appended) == appended

\* tracePages.current when the cap test returns: the test runs before the
\* page is appended
BufferAtCap(old, appended) == old

\* the page pushed onto the array that was published
TracesAfterAppend_Pushed(published, old, appended) ==
  IF published = old THEN appended ELSE published

\* the array given to setTraces after tracePages.current =
\* [...tracePages.current, ...data.data]: the buffer is a new array, the
\* published one is as it was
TracesAfterAppend(published, old, appended) == published

\* 'Maximum ' in the download badge, rendered under traces.length > 0
MaximumShown ==
  /\ Size(traces) > 0
  /\ donwloadedRecordCount = MAX_PERMITTED_DOWNLOAD_SIZE

\* .then(data => ...) of a fetch with a cursor
NextPage(s) ==
  /\ Active(s)
  /\ sess[s].cursor # NoCursor
  /\ \E pg \in ServerPages(s) :
       LET c   == counter + 1
           buf == Spread(tracePages, sess[s].id, sess[s].sent + 1, sess[s].sent + pg.n)
       IN /\ counter' = c
          /\ localRecordCount' = TotalAfterPage(localRecordCount, pg.totalCount)
          /\ UNCHANGED <<recordCount, started, appVars, searchVars>>
          /\ IF CapReached(c)
             THEN /\ tracePages' = BufferAtCap(tracePages, buf)
                  /\ traces' = tracePages'
                  /\ sess' = [sess EXCEPT ![s].st = "CAPPED",
                                          ![s].inflight = 0,
                                          ![s].sent = @ + pg.n]
                  /\ evt' = [sid |-> s, kind |-> "capped",
                             acc |-> Size(tracePages'),
                             tc |-> pg.totalCount]
                  /\ UNCHANGED donwloadedRecordCount
             ELSE IF pg.next # NoCursor
             THEN /\ tracePages' = buf
                  /\ donwloadedRecordCount' = DownloadedNext(c)
                  /\ sess' = [sess EXCEPT
                                ![s].sent = @ + pg.n,
                                ![s].pub = Append(@, DownloadedNext(c)),
                                ![s].cursor = RequestCursor(pg.next, @),
                                ![s].reqs = @ + 1]
                  /\ evt' = [sid |-> s, kind |-> "page", acc |-> Size(buf),
                             tc |-> pg.totalCount]
                  /\ traces' = TracesAfterAppend(traces, tracePages, buf)
             ELSE /\ donwloadedRecordCount' = localRecordCount'
                  /\ traces' = buf
                  /\ tracePages' = <<>>
                  /\ sess' = [sess EXCEPT
                                ![s].sent = @ + pg.n,
                                ![s].pub = Append(@, localRecordCount'),
                                ![s].inflight = 0,
                                ![s].st = "COMPLETED"]
                  /\ evt' = [sid |-> s, kind |-> "completed",
                             acc |-> Size(buf), tc |-> pg.totalCount]

FetchFails_Reset(s) ==
  /\ Active(s)
  /\ sess' = [sess EXCEPT ![s].st = "FAILED", ![s].inflight = 0]
  /\ evt' = [sid |-> s, kind |-> "failed", acc |-> 0, tc |-> 0]
  /\ traces' = <<>>
  /\ tracePages' = <<>>
  /\ donwloadedRecordCount' = 0
  /\ UNCHANGED <<counter, localRecordCount, recordCount, started, appVars,
                 searchVars>>

\* fetch() rejects or response.json() rejects: no .then(data => ...) runs and
\* the chain has no catch
FetchFails(s) ==
  /\ Active(s)
  /\ sess' = [sess EXCEPT ![s].st = "FAILED", ![s].inflight = 0]
  /\ evt' = [sid |-> s, kind |-> "failed", acc |-> Size(tracePages),
             tc |-> 0]
  /\ UNCHANGED <<counter, tracePages, localRecordCount, traces, recordCount,
                 donwloadedRecordCount, started, appVars, searchVars>>

Next ==
  \/ \E s \in Sessions : getTraces(s)
  \/ \E s \in Sessions : getTracesArb(s)
  \/ \E s \in Sessions : FirstPage(s)
  \/ \E s \in Sessions : NextPage(s)
  \/ \E s \in Sessions : FetchFails(s)

\* invocations are serialized by the caller
Spec == Init /\ [][Next]_vars

NextOverlap ==
  \/ \E s \in Sessions : getTracesOverlap(s)
  \/ \E s \in Sessions : FirstPage(s)
  \/ \E s \in Sessions : NextPage(s)
  \/ \E s \in Sessions : FetchFails(s)

\* invocations may overlap
SpecOverlap == Init /\ [][NextOverlap]_vars

\* totalCount of a download that goes beyond the cap
LongTotals == {20000}

\* the first invocation, of a long download
getTracesLong(s) ==
  /\ started = 0
  /\ \E T \in LongTotals : Start(s, T, "consistent")
  /\ UNCHANGED searchVars

\* totalCount of a download of one page
ShortTotals == {1}

\* a later invocation, of a short download, made whatever the earlier ones do
getTracesShort(s) ==
  /\ started > 0
  /\ \E T \in ShortTotals : Start(s, T, "consistent")
  /\ UNCHANGED searchVars

NextOverlapLong ==
  \/ \E s \in Sessions : getTracesLong(s)
  \/ \E s \in Sessions : getTracesShort(s)
  \/ \E s \in Sessions : FirstPage(s)
  \/ \E s \in Sessions : NextPage(s)
  \/ \E s \in Sessions : FetchFails(s)

\* short downloads are started while a long one runs
SpecOverlapLong == Init /\ [][NextOverlapLong]_vars

\* totalCount values of serialized downloads: one page, two and three pages,
\* and beyond the cap
SerialTotals == {1, 501, 1200, 20000}

\* an invocation made once the previous one has ended, with a note of what
\* that one left in the refs
getTracesNext(s) ==
  /\ \A r \in Sessions : ~Active(r)
  /\ \E T \in SerialTotals : Start(s, T, "consistent")
  /\ leftBehind' = [buffer |-> Size(tracePages), counter |-> counter,
                    total |-> localRecordCount]
  /\ UNCHANGED <<traceStart, traceEnd, showAlert, search>>

NextSerial ==
  \/ \E s \in Sessions : getTracesNext(s)
  \/ \E s \in Sessions : FirstPage(s)
  \/ \E s \in Sessions : NextPage(s)
  \/ \E s \in Sessions : FetchFails(s)

\* invocations are serialized, and each is told apart by what it found
SpecSerial == Init /\ [][NextSerial]_vars

\* ------------------------------------------------------------------------
\* The search form of App: the two date pickers, the alert and Fetch Data

MaxTime == 2            \* instants the date pickers can be set to

Times == 1..MaxTime

\* totalCount values of the queries made from the form
SearchTotals == {1, 501}

StartAfterEndAlert == "Start Date must be earlier than End Date"

\* onChange of the start DateTimePicker
SetTraceStart ==
  /\ \E newValue \in Times : traceStart' = newValue
  /\ UNCHANGED <<traceEnd, showAlert, leftBehind, search, apiVars, appVars>>

\* onChange of the end DateTimePicker
SetTraceEnd ==
  /\ \E newValue \in Times : traceEnd' = newValue
  /\ UNCHANGED <<traceStart, showAlert, leftBehind, search, apiVars, appVars>>

\* onClick of the alert modal
DismissAlert ==
  /\ showAlert # ""
  /\ showAlert' = ""
  /\ UNCHANGED <<traceStart, traceEnd, leftBehind, search, apiVars, appVars>>

\* traceFetchHandler(): the alert is set when traceStart.isAfter(traceEnd),
\* and the statements after it run in either case and end in getTraces
traceFetchHandler(s) ==
  /\ showAlert' = IF traceStart > traceEnd THEN StartAfterEndAlert
                  ELSE showAlert
  /\ UNCHANGED <<traceStart, traceEnd, leftBehind, search>>
  /\ \E T \in SearchTotals : Start(s, T, "consistent")

NextSearch ==
  \/ SetTraceStart
  \/ SetTraceEnd
  \/ DismissAlert
  \/ \E s \in Sessions : traceFetchHandler(s)
  \/ \E s \in Sessions : FirstPage(s)
  \/ \E s \in Sessions : NextPage(s)
  \/ \E s \in Sessions : FetchFails(s)

\* the form is used while downloads run
SpecSearch == Init /\ [][NextSearch]_vars

\* ========================================================================
\* App: facet extraction and the filter pipeline

MaxTraces == 2          \* records in a drawn trace set

\* callsigns, in the order Array.prototype.sort() puts them
CallsInOrder == <<"G8PZT", "GB7NBH", "MB7NPW", "NODES">>

CallRank(c) == CHOOSE i \in 1..Len(CallsInOrder) : CallsInOrder[i] = c

\* toCct of a report that has none
NoCct == -1

Report(l2Type, ptcl, type, l3type, toCct, l3src, l3dst, port, reportFrom, srce, dest, time) ==
  [l2Type |-> l2Type, ptcl |-> ptcl, type |-> type, l3type |-> l3type,
   toCct |-> toCct, l3src |-> l3src, l3dst |-> l3dst, port |-> port,
   reportFrom |-> reportFrom, srce |-> srce, dest |-> dest, time |-> time]

\* the trace records the API serves in this model
TraceRecords ==
  { Report("I",    "undefined", "undefined", "undefined", NoCct, "undefined", "undefined", 1, "MB7NPW", "G8PZT", "GB7NBH", 1),
    Report("I",    "NET/ROM", "undefined", "undefined", 10, "G8PZT", "GB7NBH", 1, "MB7NPW", "G8PZT", "GB7NBH", 1),
    Report("I",    "NET/ROM", "undefined", "undefined", 10, "G8PZT", "GB7NBH", 2, "MB7NPW", "GB7NBH", "G8PZT", 2),
    Report("I",    "NET/ROM", "undefined", "undefined", 20, "GB7NBH", "G8PZT", 2, "MB7NPW", "GB7NBH", "G8PZT", 3),
    Report("I",    "NET/ROM", "undefined", "undefined", 0, "G8PZT", "MB7NPW", 1, "GB7NBH", "G8PZT", "MB7NPW", 4),
    Report("UI",   "undefined", "NODES", "undefined", NoCct, "undefined", "undefined", 1, "GB7NBH", "G8PZT", "NODES", 5),
    Report("UI",   "undefined", "undefined", "undefined", NoCct, "undefined", "undefined", 1, "MB7NPW", "MB7NPW", "G8PZT", 6),
    Report("FRMR", "undefined", "undefined", "undefined", NoCct, "undefined", "undefined", 2, "MB7NPW", "G8PZT", "GB7NBH", 7),
    Report("I",    "NET/ROM", "INP3", "Routing info", NoCct, "undefined", "undefined", 1, "MB7NPW", "GB7NBH", "G8PZT", 8),
    Report("I",    "undefined", "undefined", "INP3", NoCct, "undefined", "undefined", 2, "GB7NBH", "G8PZT", "MB7NPW", 9) }

TraceSets == UNION {[1..n -> TraceRecords] : n \in 0..MaxTraces}

Circuit(toCct, l3src, l3dst) == [toCct |-> toCct, l3src |-> l3src, l3dst |-> l3dst]
Port(port, reportFrom) == [port |-> port, reportFrom |-> reportFrom]

\* selections the Autocompletes or the search link can set
CircuitSelections ==
  { <<>>,
    <<Circuit(0, "G8PZT", "MB7NPW")>>,
    <<Circuit(10, "G8PZT", "GB7NBH"), Circuit(20, "GB7NBH", "G8PZT")>> }

PortSelections ==
  { <<>>, <<Port(2, "MB7NPW"), Port(1, "GB7NBH")>> }

CallsignSelections ==
  { <<>>,
    <<<<"GB7NBH", "G8PZT">>>>,
    <<<<"G8PZT", "MB7NPW">>, <<"G8PZT", "NODES">>>> }

\* t.report.toCct as a condition
Truthy(toCct) == toCct # NoCct /\ toCct # 0

\* the selected circuits taken out, not kept
FilterCircuits_Excluding(seq, sel) ==
  SelectSeq(seq, LAMBDA t :
    Len(SelectSeq(sel, LAMBDA c : Truthy(t.toCct) /\ t.toCct = c.toCct)) = 0)

\* iteratingLocalFilter.current.filter(t => selectedNetRomCircuits.filter(...).length > 0)
FilterCircuits(seq, sel) ==
  SelectSeq(seq, LAMBDA t :
    Len(SelectSeq(sel, LAMBDA c : Truthy(t.toCct) /\ t.toCct = c.toCct)) > 0)

FilterPorts_BySelection(seq, sel) ==
  LET RECURSIVE Collect(_)
      Collect(i) ==
        IF i > Len(sel) THEN <<>>
        ELSE SelectSeq(seq, LAMBDA t : t.reportFrom = sel[i].reportFrom
                                         /\ t.port = sel[i].port)
             \o Collect(i + 1)
  IN Collect(1)

\* iteratingLocalFilter.current.filter(t => selectedPorts.filter(...).length > 0)
FilterPorts(seq, sel) ==
  SelectSeq(seq, LAMBDA t :
    Len(SelectSeq(sel, LAMBDA q : t.reportFrom = q.reportFrom
                                     /\ t.port = q.port)) > 0)

\* a pair matched in the order it was selected only
FilterCallsigns_Directed(seq, sel) ==
  SelectSeq(seq, LAMBDA t :
    Len(SelectSeq(sel, LAMBDA c : t.srce = c[1] /\ t.dest = c[2])) > 0)

\* iteratingLocalFilter.current.filter(t => selectedL2Callsigns.filter(...).length > 0)
FilterCallsigns(seq, sel) ==
  SelectSeq(seq, LAMBDA t :
    Len(SelectSeq(sel, LAMBDA c : \/ (t.srce = c[1] /\ t.dest = c[2])
                                    \/ (t.srce = c[2] /\ t.dest = c[1]))) > 0)

\* STEP 2 of filterTraces
Step2(seq, selC, selP, selL) ==
  LET a == IF Len(selC) > 0 THEN FilterCircuits(seq, selC) ELSE seq
      b == IF Len(selP) > 0 THEN FilterPorts(a, selP) ELSE a
  IN IF Len(selL) > 0 THEN FilterCallsigns(b, selL) ELSE b

Inp3Suppressed_L3(t) == t.l3type = "INP3"

\* t.report.type == 'INP3'
Inp3Suppressed(t) == t.type = "INP3"

\* with both exclusive views set, a record in either view passes them
Keep_EitherView(t, onlyRI, onlyFRMR, sNetRom, sInp3, sNodes, sUI) ==
  IF onlyRI /\ onlyFRMR /\ t.l3type # "Routing info" /\ t.l2Type # "FRMR"
  THEN FALSE
  ELSE IF onlyRI /\ ~onlyFRMR /\ t.l3type # "Routing info" THEN FALSE
  ELSE IF onlyFRMR /\ ~onlyRI /\ t.l2Type # "FRMR" THEN FALSE
  ELSE IF sNetRom /\ t.ptcl = "NET/ROM" THEN FALSE
  ELSE IF sInp3 /\ Inp3Suppressed(t) THEN FALSE
  ELSE IF sNodes /\ t.type = "NODES" THEN FALSE
  ELSE IF sUI /\ t.l2Type = "UI" THEN FALSE
  ELSE TRUE

\* the callback of STEP 3, one early return after the other
Keep(t, onlyRI, onlyFRMR, sNetRom, sInp3, sNodes, sUI) ==
  IF onlyRI /\ t.l3type # "Routing info" THEN FALSE
  ELSE IF onlyFRMR /\ t.l2Type # "FRMR" THEN FALSE
  ELSE IF sNetRom /\ t.ptcl = "NET/ROM" THEN FALSE
  ELSE IF sInp3 /\ Inp3Suppressed(t) THEN FALSE
  ELSE IF sNodes /\ t.type = "NODES" THEN FALSE
  ELSE IF sUI /\ t.l2Type = "UI" THEN FALSE
  ELSE TRUE

Step3_SkipsFirst(seq, onlyRI, onlyFRMR, sNetRom, sInp3, sNodes, sUI) ==
  SelectSeq(IF seq = <<>> THEN seq ELSE Tail(seq), LAMBDA t :
    Keep(t, onlyRI, onlyFRMR, sNetRom, sInp3, sNodes, sUI))

\* STEP 3 of filterTraces
Step3(seq, onlyRI, onlyFRMR, sNetRom, sInp3, sNodes, sUI) ==
  SelectSeq(seq, LAMBDA t :
    Keep(t, onlyRI, onlyFRMR, sNetRom, sInp3, sNodes, sUI))

\* the test comparing object identities: a fresh object is never in the list
NotSeen_ByReference(seq, x) == Len(SelectSeq(seq, LAMBDA c : FALSE)) = 0

\* seq.filter(c => JSON.stringify(c) === JSON.stringify(x)).length == 0
NotSeen(seq, x) == Len(SelectSeq(seq, LAMBDA c : c = x)) = 0

\* the list left in insertion order
SortByToCct_Unsorted(seq) == seq

\* tmpSeenCcts.sort((a,b) => a.toCct - b.toCct), a stable sort
SortByToCct(seq) ==
  LET RECURSIVE Ins(_, _)
      Ins(sorted, x) ==
        IF sorted = <<>> THEN <<x>>
        ELSE IF sorted[Len(sorted)].toCct - x.toCct > 0
             THEN Append(Ins(SubSeq(sorted, 1, Len(sorted) - 1), x),
                         sorted[Len(sorted)])
             ELSE Append(sorted, x)
      RECURSIVE Go(_)
      Go(i) == IF i = 0 THEN <<>> ELSE Ins(Go(i - 1), seq[i])
  IN Go(Len(seq))

\* the pair pushed as it is met, without callsignArray.sort()
SortedPair_AsEncountered(srce, dest) == <<srce, dest>>

\* callsignArray.sort() of [srce, dest]
SortedPair(srce, dest) ==
  IF CallRank(dest) < CallRank(srce) THEN <<dest, srce>> ELSE <<srce, dest>>

\* tmpSeenCcts after the first i traces
SeenCcts(seq, i) ==
  LET RECURSIVE Go(_)
      Go(k) ==
        IF k = 0 THEN <<>>
        ELSE LET t == seq[k]
                 prev == Go(k - 1)
                 circuitObject == Circuit(t.toCct, t.l3src, t.l3dst)
             IN IF t.ptcl = "NET/ROM" /\ Truthy(t.toCct)
                THEN SortByToCct(IF NotSeen(prev, circuitObject)
                                 THEN Append(prev, circuitObject) ELSE prev)
                ELSE prev
  IN Go(i)

\* tmpSeenPorts after all traces
SeenPortsOf(seq) ==
  LET RECURSIVE Go(_)
      Go(k) ==
        IF k = 0 THEN <<>>
        ELSE LET prev == Go(k - 1)
                 portObject == Port(seq[k].port, seq[k].reportFrom)
             IN IF NotSeen(prev, portObject) THEN Append(prev, portObject)
                ELSE prev
  IN Go(Len(seq))

\* tmpSeenL2Callsigns after all traces
SeenL2CallsignsOf(seq) ==
  LET RECURSIVE Go(_)
      Go(k) ==
        IF k = 0 THEN <<>>
        ELSE LET prev == Go(k - 1)
                 callsignArray == SortedPair(seq[k].srce, seq[k].dest)
             IN IF NotSeen(prev, callsignArray) THEN Append(prev, callsignArray)
                ELSE prev
  IN Go(Len(seq))

\* findSeenCallsignsAndNetRom() over the trace set tr: setSeenNetRomCircuits
\* runs only inside the NET/ROM branch, setSeenPorts and setSeenL2Callsigns
\* for every trace
findSeenCallsignsAndNetRom(tr) ==
  /\ seenNetRomCircuits' =
       IF \E k \in 1..Len(tr) : tr[k].ptcl = "NET/ROM" /\ Truthy(tr[k].toCct)
       THEN SeenCcts(tr, Len(tr))
       ELSE seenNetRomCircuits
  /\ seenPorts' = IF Len(tr) > 0 THEN SeenPortsOf(tr) ELSE seenPorts
  /\ seenL2Callsigns' =
       IF Len(tr) > 0 THEN SeenL2CallsignsOf(tr) ELSE seenL2Callsigns

\* filterTraces() with tr the value of traces
filterTraces(tr) ==
  /\ findSeenCallsignsAndNetRom(tr)
  /\ iteratingLocalFilter' =
       Step2(tr, selectedNetRomCircuits, selectedPorts, selectedL2Callsigns)
  /\ filteredTraces' =
       Step3(iteratingLocalFilter', showOnlyRoutingInfo, showOnlyFRMR,
             suppressNetRom, suppressInp3, suppressNodes, suppressUI)

\* the pipeline runs on the trace set and criteria in force
RunFilter ==
  /\ phase = 0
  /\ filterTraces(appTraces)
  /\ prevFiltered' = filteredTraces
  /\ phase' = 1
  /\ UNCHANGED <<appTraces, criteriaVars, apiVars, searchVars>>

\* the pipeline runs again, with its own output as the trace set
RunFilterOnOutput ==
  /\ phase = 1
  /\ appTraces' = filteredTraces
  /\ filterTraces(filteredTraces)
  /\ prevFiltered' = filteredTraces
  /\ phase' = 2
  /\ UNCHANGED <<criteriaVars, apiVars, searchVars>>

\* any trace set and any criteria, before the pipeline has run
InitFilter ==
  /\ InitApi
  /\ appTraces \in TraceSets
  /\ selectedNetRomCircuits \in CircuitSelections
  /\ selectedPorts \in PortSelections
  /\ selectedL2Callsigns \in CallsignSelections
  /\ suppressNodes \in BOOLEAN
  /\ suppressUI \in BOOLEAN
  /\ suppressNetRom \in BOOLEAN
  /\ suppressInp3 \in BOOLEAN
  /\ showOnlyFRMR \in BOOLEAN
  /\ showOnlyRoutingInfo \in BOOLEAN
  /\ iteratingLocalFilter = <<>>
  /\ filteredTraces = <<>>
  /\ seenNetRomCircuits = <<>>
  /\ seenPorts = <<>>
  /\ seenL2Callsigns = <<>>
  /\ phase = 0
  /\ prevFiltered = <<>>
  /\ InitSearch

NextFilter ==
  \/ RunFilter
  \/ RunFilterOnOutput

SpecFilter == InitFilter /\ [][NextFilter]_vars

\* ------------------------------------------------------------------------
\* The pipeline over all criteria, on trace sets of fewer kinds of record

MaxCriteriaTraces == 2  \* records in a trace set drawn for the criteria

\* a circuit 10 frame, a circuit 0 frame, a NODES broadcast, a FRMR and a
\* routing-info frame
CriteriaRecords == {t \in TraceRecords : t.time \in {2, 4, 5, 7, 8}}

CriteriaTraceSets ==
  UNION {[1..n -> CriteriaRecords] : n \in 0..MaxCriteriaTraces}

InitCriteria ==
  /\ InitApi
  /\ appTraces \in CriteriaTraceSets
  /\ selectedNetRomCircuits \in CircuitSelections
  /\ selectedPorts \in PortSelections
  /\ selectedL2Callsigns \in CallsignSelections
  /\ suppressNodes \in BOOLEAN
  /\ suppressUI \in BOOLEAN
  /\ suppressNetRom \in BOOLEAN
  /\ suppressInp3 \in BOOLEAN
  /\ showOnlyFRMR \in BOOLEAN
  /\ showOnlyRoutingInfo \in BOOLEAN
  /\ iteratingLocalFilter = <<>>
  /\ filteredTraces = <<>>
  /\ seenNetRomCircuits = <<>>
  /\ seenPorts = <<>>
  /\ seenL2Callsigns = <<>>
  /\ phase = 0
  /\ prevFiltered = <<>>
  /\ InitSearch

SpecCriteria == InitCriteria /\ [][NextFilter]_vars

\* ------------------------------------------------------------------------
\* Facet extraction over longer trace sets, criteria at their defaults

MaxFacetTraces == 3     \* records in a trace set drawn for the facets

\* records over four circuits (one of them twice, at different times), a
\* circuit 0 and a frame that is not NET/ROM
FacetRecords ==
  {t \in TraceRecords : t.time \in 1..4} \cup
  { Report("I", "NET/ROM", "undefined", "undefined", 30, "MB7NPW", "G8PZT", 1, "GB7NBH", "MB7NPW", "G8PZT", 10) }

FacetTraceSets == UNION {[1..n -> FacetRecords] : n \in 0..MaxFacetTraces}

InitFacets ==
  /\ InitApi
  /\ appTraces \in FacetTraceSets
  /\ selectedNetRomCircuits = <<>>
  /\ selectedPorts = <<>>
  /\ selectedL2Callsigns = <<>>
  /\ suppressNodes = TRUE
  /\ suppressUI = TRUE
  /\ suppressNetRom = FALSE
  /\ suppressInp3 = FALSE
  /\ showOnlyFRMR = FALSE
  /\ showOnlyRoutingInfo = FALSE
  /\ iteratingLocalFilter = <<>>
  /\ filteredTraces = <<>>
  /\ seenNetRomCircuits = <<>>
  /\ seenPorts = <<>>
  /\ seenL2Callsigns = <<>>
  /\ phase = 0
  /\ prevFiltered = <<>>
  /\ InitSearch

SpecFacets == InitFacets /\ [][NextFilter]_vars

\* ------------------------------------------------------------------------
\* The App component: the trace set and the criteria change, and the effect
\* on them runs after every change

MaxAppTraces == 1       \* records in a trace set the context publishes
MaxSelected == 1        \* options picked in one Autocomplete

\* a circuit 10 frame, a circuit 20 frame, a UI frame and a FRMR
AppRecords == {t \in TraceRecords : t.time \in {2, 3, 6, 7}}

AppTraceSets == UNION {[1..n -> AppRecords] : n \in 0..MaxAppTraces}

\* the entries of a list
Range(seq) == {seq[i] : i \in 1..Len(seq)}

\* the values an Autocomplete (multiple) can hand to onChange: options in the
\* order they were picked, none twice
Picks(options) ==
  {v \in UNION {[1..n -> Range(options)] : n \in 0..MaxSelected} :
     \A i, j \in 1..Len(v) : i # j => v[i] # v[j]}

\* useEffect(() => { if (traces.length == 0) return; regenerateURL();
\* filterTraces() }, [traces, ...criteria]) in the render that follows the
\* change of state
useEffect ==
  IF Len(appTraces') = 0
  THEN UNCHANGED <<iteratingLocalFilter, filteredTraces, seenNetRomCircuits,
                   seenPorts, seenL2Callsigns>>
  ELSE /\ findSeenCallsignsAndNetRom(appTraces')
       /\ iteratingLocalFilter' =
            Step2(appTraces', selectedNetRomCircuits', selectedPorts',
                  selectedL2Callsigns')
       /\ filteredTraces' =
            Step3(iteratingLocalFilter', showOnlyRoutingInfo', showOnlyFRMR',
                  suppressNetRom', suppressInp3', suppressNodes', suppressUI')

\* the filter panel is rendered only under traces.length > 0
FiltersShown == Len(appTraces) > 0

\* the context publishes a trace set (setTraces in ApiProvider)
TracesChange ==
  /\ \E tr \in AppTraceSets : appTraces' = tr
  /\ UNCHANGED <<criteriaVars, apiVars, phase, prevFiltered>>
  /\ useEffect
  /\ UNCHANGED searchVars

SetSelectedNetRomCircuits ==
  /\ FiltersShown
  /\ \E value \in Picks(seenNetRomCircuits) : selectedNetRomCircuits' = value
  /\ UNCHANGED <<appTraces, selectedPorts, selectedL2Callsigns, suppressNodes,
                 suppressUI, suppressNetRom, suppressInp3, showOnlyFRMR,
                 showOnlyRoutingInfo, apiVars, phase, prevFiltered>>
  /\ useEffect
  /\ UNCHANGED searchVars

SetSelectedPorts ==
  /\ FiltersShown
  /\ \E value \in Picks(seenPorts) : selectedPorts' = value
  /\ UNCHANGED <<appTraces, selectedNetRomCircuits, selectedL2Callsigns,
                 suppressNodes, suppressUI, suppressNetRom, suppressInp3,
                 showOnlyFRMR, showOnlyRoutingInfo, apiVars, phase,
                 prevFiltered>>
  /\ useEffect
  /\ UNCHANGED searchVars

SetSelectedL2Callsigns ==
  /\ FiltersShown
  /\ \E value \in Picks(seenL2Callsigns) : selectedL2Callsigns' = value
  /\ UNCHANGED <<appTraces, selectedNetRomCircuits, selectedPorts,
                 suppressNodes, suppressUI, suppressNetRom, suppressInp3,
                 showOnlyFRMR, showOnlyRoutingInfo, apiVars, phase,
                 prevFiltered>>
  /\ useEffect
  /\ UNCHANGED searchVars

SetSuppressNodes ==
  /\ FiltersShown
  /\ suppressNodes' = ~suppressNodes
  /\ UNCHANGED <<appTraces, selectedNetRomCircuits, selectedPorts,
                 selectedL2Callsigns, suppressUI, suppressNetRom, suppressInp3,
                 showOnlyFRMR, showOnlyRoutingInfo, apiVars, phase,
                 prevFiltered>>
  /\ useEffect
  /\ UNCHANGED searchVars

SetSuppressUI ==
  /\ FiltersShown
  /\ suppressUI' = ~suppressUI
  /\ UNCHANGED <<appTraces, selectedNetRomCircuits, selectedPorts,
                 selectedL2Callsigns, suppressNodes, suppressNetRom,
                 suppressInp3, showOnlyFRMR, showOnlyRoutingInfo, apiVars,
                 phase, prevFiltered>>
  /\ useEffect
  /\ UNCHANGED searchVars

SetSuppressNetRom ==
  /\ FiltersShown
  /\ suppressNetRom' = ~suppressNetRom
  /\ UNCHANGED <<appTraces, selectedNetRomCircuits, selectedPorts,
                 selectedL2Callsigns, suppressNodes, suppressUI, suppressInp3,
                 showOnlyFRMR, showOnlyRoutingInfo, apiVars, phase,
                 prevFiltered>>
  /\ useEffect
  /\ UNCHANGED searchVars

SetSuppressInp3 ==
  /\ FiltersShown
  /\ suppressInp3' = ~suppressInp3
  /\ UNCHANGED <<appTraces, selectedNetRomCircuits, selectedPorts,
                 selectedL2Callsigns, suppressNodes, suppressUI, suppressNetRom,
                 showOnlyFRMR, showOnlyRoutingInfo, apiVars, phase,
                 prevFiltered>>
  /\ useEffect
  /\ UNCHANGED searchVars

\* the 'Show Only FRMR' switch is in the page: inside the filter panel, under
\* filteredTraces.filter(t => t.report.l2Type == 'FRMR').length > 0
ShowOnlyFRMROffered ==
  /\ FiltersShown
  /\ Len(SelectSeq(filteredTraces, LAMBDA t : t.l2Type = "FRMR")) > 0

\* the switch is rendered only while filteredTraces holds a FRMR
SetShowOnlyFRMR ==
  /\ FiltersShown
  /\ Len(SelectSeq(filteredTraces, LAMBDA t : t.l2Type = "FRMR")) > 0
  /\ showOnlyFRMR' = ~showOnlyFRMR
  /\ UNCHANGED <<appTraces, selectedNetRomCircuits, selectedPorts,
                 selectedL2Callsigns, suppressNodes, suppressUI, suppressNetRom,
                 suppressInp3, showOnlyRoutingInfo, apiVars, phase,
                 prevFiltered>>
  /\ useEffect
  /\ UNCHANGED searchVars

SetShowOnlyRoutingInfo ==
  /\ FiltersShown
  /\ showOnlyRoutingInfo' = ~showOnlyRoutingInfo
  /\ UNCHANGED <<appTraces, selectedNetRomCircuits, selectedPorts,
                 selectedL2Callsigns, suppressNodes, suppressUI, suppressNetRom,
                 suppressInp3, showOnlyFRMR, apiVars, phase, prevFiltered>>
  /\ useEffect
  /\ UNCHANGED searchVars

NextApp ==
  \/ TracesChange
  \/ SetSelectedNetRomCircuits
  \/ SetSelectedPorts
  \/ SetSelectedL2Callsigns
  \/ SetSuppressNodes
  \/ SetSuppressUI
  \/ SetSuppressNetRom
  \/ SetSuppressInp3
  \/ SetShowOnlyFRMR
  \/ SetShowOnlyRoutingInfo

SpecApp == Init /\ [][NextApp]_vars

\* ------------------------------------------------------------------------
\* The page as a whole: a long download runs in ApiProvider while App is
\* given trace sets and criteria

NextPublished ==
  \/ \E s \in Sessions : getTracesLong(s)
  \/ \E s \in Sessions : FirstPage(s)
  \/ \E s \in Sessions : NextPage(s)
  \/ \E s \in Sessions : FetchFails(s)
  \/ TracesChange
  \/ SetSelectedPorts
  \/ SetSuppressUI

SpecPublished == Init /\ [][NextPublished]_vars

\* ------------------------------------------------------------------------
\* The criteria in the query string.  A string is the sequence of its
\* pieces: a callsign, a digit, a comma, the text of a boolean.  The query
\* string is the list of its [key, value] entries.  The entries rf, ts, te,
\* shsc, shpl and snrd carry state that is not part of the criteria and are
\* left out.

Comma == ","

DigitChars == <<"0", "1", "2", "3", "4", "5", "6", "7", "8", "9">>

\* `${n}` of a number that is not negative
StrOfNum(n) ==
  LET RECURSIVE Go(_)
      Go(k) == IF k < 10 THEN <<DigitChars[k + 1]>>
               ELSE Append(Go(k \div 10), DigitChars[(k % 10) + 1])
  IN Go(n)

\* the number a string of digits is == to
NumOfStr(str) ==
  LET DigitOf(ch) == (CHOOSE i \in 1..10 : DigitChars[i] = ch) - 1
      RECURSIVE Go(_)
      Go(k) == IF k = 0 THEN 0 ELSE Go(k - 1) * 10 + DigitOf(str[k])
  IN Go(Len(str))

\* String(value) of a boolean appended to URLSearchParams
StrOfBool(b) == IF b THEN <<"true">> ELSE <<"false">>

\* a callsign as a string
StrOfCall(c) == <<c>>

\* the callsign a string of one piece is
CallOfStr(str) == str[1]

\* parts.join(',')
JoinComma(parts) ==
  LET RECURSIVE Go(_)
      Go(k) == IF k = 1 THEN parts[1]
               ELSE Go(k - 1) \o <<Comma>> \o parts[k]
  IN IF Len(parts) = 0 THEN <<>> ELSE Go(Len(parts))

\* str.split(',')
SplitComma(str) ==
  LET RECURSIVE Go(_)
      Go(k) ==
        IF k = 0 THEN << <<>> >>
        ELSE LET before == Go(k - 1)
             IN IF str[k] = Comma THEN Append(before, <<>>)
                ELSE [before EXCEPT ![Len(before)] = Append(@, str[k])]
  IN Go(Len(str))

Entry(key, value) == [key |-> key, value |-> value]

\* if (flag) queryParams.append(key, flag)
AppendedIf(flag, key) == IF flag THEN <<Entry(key, StrOfBool(flag))>> ELSE <<>>

\* the "sl2" entries: l2PairArray.join(',') of every selected pair
L2Entries(selL) ==
  [i \in 1..Len(selL) |->
     Entry("sl2", JoinComma(<<StrOfCall(selL[i][1]), StrOfCall(selL[i][2])>>))]

\* the "sp" entries: `${selectedPort.port},${selectedPort.reportFrom}`
PortEntries(selP) ==
  [i \in 1..Len(selP) |->
     Entry("sp", StrOfNum(selP[i].port) \o <<Comma>>
                   \o StrOfCall(selP[i].reportFrom))]

\* the "snr" entries: `${c.toCct},${c.l3src},${c.l3dst}`
NetRomEntries(selC) ==
  [i \in 1..Len(selC) |->
     Entry("snr", StrOfNum(selC[i].toCct) \o <<Comma>>
                    \o StrOfCall(selC[i].l3src) \o <<Comma>>
                    \o StrOfCall(selC[i].l3dst))]

\* the queryParams regenerateURL() builds: showOnlyFRMR is not written
QueryParams(selL, selP, selC, sNodes, sUI, sNetRom, sInp3, onlyRI) ==
  L2Entries(selL)
  \o PortEntries(selP)
  \o NetRomEntries(selC)
  \o AppendedIf(sNodes, "sun")
  \o AppendedIf(sUI, "suui")
  \o AppendedIf(sNetRom, "sunr")
  \o AppendedIf(sInp3, "sui3")
  \o AppendedIf(onlyRI, "shori")

\* urlParams.getAll(key)
GetAll(params, key) ==
  LET hits == SelectSeq(params, LAMBDA e : e.key = key)
  IN [i \in 1..Len(hits) |-> hits[i].value]

\* what .map() returns for a value that does not split as expected
Undefined == "undefined"

\* urlSelectedL2.map(l2Pair => ...)
DecodedL2(values) ==
  [i \in 1..Len(values) |->
     LET l2PairArray == SplitComma(values[i])
     IN IF Len(l2PairArray) = 2
        THEN <<CallOfStr(l2PairArray[1]), CallOfStr(l2PairArray[2])>>
        ELSE Undefined]

\* urlSelectedPorts.map(selectedPort => ...): port stays a string, which
\* the filter compares with ==, so it stands here as the number it is == to
DecodedPorts(values) ==
  [i \in 1..Len(values) |->
     LET portAndCallsignObject == SplitComma(values[i])
     IN IF Len(portAndCallsignObject) = 2
        THEN Port(NumOfStr(portAndCallsignObject[1]),
                  CallOfStr(portAndCallsignObject[2]))
        ELSE Undefined]

\* urlSelectedNetRom.map(netRomCctAndCallsigns => ...): toCct as port above
DecodedNetRom(values) ==
  [i \in 1..Len(values) |->
     LET netRomCctAndCallsignsArray == SplitComma(values[i])
     IN IF Len(netRomCctAndCallsignsArray) = 3
        THEN Circuit(NumOfStr(netRomCctAndCallsignsArray[1]),
                     CallOfStr(netRomCctAndCallsignsArray[2]),
                     CallOfStr(netRomCctAndCallsignsArray[3]))
        ELSE Undefined]

\* if (urlFlag) setFlag(urlFlag == 'true' ? true : false), on the useState
\* initial value
FlagAtMount(params, key, initial) ==
  LET values == GetAll(params, key)
  IN IF Len(values) > 0 /\ Len(values[1]) > 0
     THEN values[1] = <<"true">>
     ELSE initial

\* any criteria, the page not yet written to the address bar
InitURL ==
  /\ InitApi
  /\ appTraces = <<>>
  /\ selectedNetRomCircuits \in CircuitSelections
  /\ selectedPorts \in PortSelections
  /\ selectedL2Callsigns \in CallsignSelections
  /\ suppressNodes \in BOOLEAN
  /\ suppressUI \in BOOLEAN
  /\ suppressNetRom \in BOOLEAN
  /\ suppressInp3 \in BOOLEAN
  /\ showOnlyFRMR \in BOOLEAN
  /\ showOnlyRoutingInfo \in BOOLEAN
  /\ iteratingLocalFilter = <<>>
  /\ filteredTraces = <<>>
  /\ seenNetRomCircuits = <<>>
  /\ seenPorts = <<>>
  /\ seenL2Callsigns = <<>>
  /\ phase = 0
  /\ prevFiltered = <<>>
  /\ InitSearch

\* regenerateURL(): window.history.pushState('', '', api)
regenerateURL ==
  /\ phase = 0
  /\ search' = QueryParams(selectedL2Callsigns, selectedPorts,
                           selectedNetRomCircuits, suppressNodes, suppressUI,
                           suppressNetRom, suppressInp3, showOnlyRoutingInfo)
  /\ phase' = 1
  /\ UNCHANGED <<traceStart, traceEnd, showAlert, leftBehind, apiVars,
                 appTraces, criteriaVars, iteratingLocalFilter, filteredTraces,
                 seenNetRomCircuits, seenPorts, seenL2Callsigns, prevFiltered>>

\* the page is loaded from the address: useState initial values, then the
\* effect run at mount reads document.location.search
Mount ==
  /\ phase = 1
  /\ LET urlSelectedL2 == GetAll(search, "sl2")
         urlSelectedPorts == GetAll(search, "sp")
         urlSelectedNetRom == GetAll(search, "snr")
     IN /\ selectedL2Callsigns' =
             IF Len(urlSelectedL2) > 0 THEN DecodedL2(urlSelectedL2) ELSE <<>>
        /\ seenL2Callsigns' =
             IF Len(urlSelectedL2) > 0 THEN DecodedL2(urlSelectedL2) ELSE <<>>
        /\ selectedPorts' =
             IF Len(urlSelectedPorts) > 0 THEN DecodedPorts(urlSelectedPorts)
             ELSE <<>>
        /\ selectedNetRomCircuits' =
             IF Len(urlSelectedNetRom) > 0 THEN DecodedNetRom(urlSelectedNetRom)
             ELSE <<>>
  /\ suppressNodes' = FlagAtMount(search, "sun", TRUE)
  /\ suppressUI' = FlagAtMount(search, "suui", TRUE)
  /\ suppressNetRom' = FlagAtMount(search, "sunr", FALSE)
  /\ suppressInp3' = FlagAtMount(search, "sui3", FALSE)
  /\ showOnlyRoutingInfo' = FlagAtMount(search, "shori", FALSE)
  /\ showOnlyFRMR' = FALSE
  /\ phase' = 2
  /\ UNCHANGED <<appTraces, iteratingLocalFilter, filteredTraces,
                 seenNetRomCircuits, seenPorts, prevFiltered, apiVars,
                 searchVars>>

NextURL ==
  \/ regenerateURL
  \/ Mount

\* the criteria are written to the address and the page is loaded from it
SpecURL == InitURL /\ [][NextURL]_vars

\* ========================================================================
\* Properties of the download

CeilDiv(a, b) == (a + b - 1) \div b

\* the progress values one download of T records publishes, page by page
ExpectedProgress(T) ==
  LET n == CeilDiv(T, API_PAGE_SIZE)
  IN [i \in 1..n |-> IF i < n THEN i * API_PAGE_SIZE ELSE T]

IsPrefix(p, q) == Len(p) <= Len(q) /\ p = SubSeq(q, 1, Len(p))

\* the array holding exactly the records 1..n of invocation id, in order
RecordsOf(id, n) == Spread(<<>>, id, 1, n)

Consistent(s) == sess[s].st # "idle" /\ sess[s].mode = "consistent"

\* C1: a download of 1 <= totalCount <= cap records served as
\* n = ceil(totalCount / pageSize) consistent pages never ends CAPPED, has
\* published a prefix of pageSize, 2*pageSize, ..., (n-1)*pageSize, totalCount
\* at every moment, and once COMPLETED has issued exactly n requests, published
\* the whole sequence, and left the totalCount records of the query published
\* with downloadedCount = totalCount.
C1_NormalPagination ==
  \A s \in Sessions :
    (Consistent(s) /\ sess[s].total >= 1
       /\ sess[s].total <= MAX_PERMITTED_DOWNLOAD_SIZE) =>
      LET T == sess[s].total
          n == CeilDiv(T, API_PAGE_SIZE)
      IN /\ sess[s].st # "CAPPED"
         /\ sess[s].reqs <= n
         /\ IsPrefix(sess[s].pub, ExpectedProgress(T))
         /\ sess[s].st = "COMPLETED" =>
              /\ sess[s].reqs = n
              /\ sess[s].pub = ExpectedProgress(T)
              /\ traces = RecordsOf(sess[s].id, T)
              /\ Size(traces) = T
              /\ donwloadedRecordCount = T
              /\ recordCount = T

C1_Witness ==
  \E s \in Sessions :
    /\ Consistent(s) /\ sess[s].total = 1200 /\ sess[s].st = "COMPLETED"
    /\ sess[s].reqs = 3
    /\ sess[s].pub = <<500, 1000, 1200>>
    /\ Size(traces) = 1200

\* what C2 and its amendment share: a download of totalCount > cap records
\* never completes, and once CAPPED the projected size counter * pageSize
\* exceeds the cap while 5000 records are accumulated and published with
\* downloadedCount = 5000
CappedAtFiveThousand(s) ==
  /\ sess[s].st # "COMPLETED"
  /\ sess[s].st = "CAPPED" =>
       /\ counter * API_PAGE_SIZE > MAX_PERMITTED_DOWNLOAD_SIZE
       /\ donwloadedRecordCount = MAX_PERMITTED_DOWNLOAD_SIZE
       /\ Size(tracePages) = MAX_PERMITTED_DOWNLOAD_SIZE
       /\ traces = RecordsOf(sess[s].id, MAX_PERMITTED_DOWNLOAD_SIZE)

OverCap(s) == Consistent(s) /\ sess[s].total > MAX_PERMITTED_DOWNLOAD_SIZE

\* C2 as stated: a download of totalCount > cap records ends CAPPED with
\* downloadedCount = 5000 and 5000 records accumulated and published, and
\* requests no page beyond the 10th.
C2_NoEleventhRequest ==
  \A s \in Sessions :
    OverCap(s) =>
      /\ CappedAtFiveThousand(s)
      /\ sess[s].reqs <= MAX_PERMITTED_DOWNLOAD_SIZE \div API_PAGE_SIZE

\* C2 amended: a download of totalCount > cap records ends CAPPED with
\* downloadedCount = 5000 and 5000 records accumulated and published; the cap
\* is applied when the response to the 11th request arrives, so exactly 11
\* pages have been requested by then (the 11th is discarded) and no 12th is.
C2_CapEnforcement ==
  \A s \in Sessions :
    OverCap(s) =>
      /\ CappedAtFiveThousand(s)
      /\ sess[s].reqs <= MAX_PERMITTED_DOWNLOAD_SIZE \div API_PAGE_SIZE + 1
      /\ sess[s].st = "CAPPED" =>
           /\ sess[s].reqs = MAX_PERMITTED_DOWNLOAD_SIZE \div API_PAGE_SIZE + 1
           /\ sess[s].sent = Min(sess[s].total, sess[s].reqs * API_PAGE_SIZE)

C2_Witness ==
  \E s \in Sessions :
    /\ OverCap(s) /\ sess[s].total = 20000 /\ sess[s].st = "CAPPED"
    /\ sess[s].reqs = 11
    /\ donwloadedRecordCount = 5000
    /\ Size(traces) = 5000

\* C3: the published downloadedCount never exceeds
\* MAX_PERMITTED_DOWNLOAD_SIZE, whatever totalCount the server reports and
\* however many pages it offers.
C3_DownloadedWithinCap ==
  donwloadedRecordCount <= MAX_PERMITTED_DOWNLOAD_SIZE

\* C4: whenever a download served consistently publishes (first page,
\* intermediate page, COMPLETED, CAPPED), the number of records it has
\* accumulated at that moment equals the published downloadedCount.
C4_AccumulatedEqualsDownloaded ==
  \A s \in Sessions :
    (Consistent(s) /\ evt.sid = s
       /\ evt.kind \in {"first", "page", "completed", "capped"}) =>
      evt.acc = donwloadedRecordCount

C4_Witness ==
  \E s \in Sessions :
    /\ Consistent(s) /\ evt.sid = s /\ evt.kind = "page"
    /\ sess[s].total = 1200
    /\ evt.acc = 1000 /\ donwloadedRecordCount = 1000

\* C5: a failing page request leaves the download FAILED with the buffer
\* and the published traces, recordCount and downloadedCount as they were,
\* and a FAILED download issues no further request and changes nothing.
C5_FailureKeepsSnapshot ==
  [][\A s \in Sessions :
       /\ (evt'.kind = "failed" /\ evt'.sid = s) =>
            /\ sess'[s].st = "FAILED"
            /\ sess'[s].reqs = sess[s].reqs
            /\ UNCHANGED <<tracePages, traces, recordCount,
                           donwloadedRecordCount>>
       /\ (sess[s].st = "FAILED" /\ evt'.sid = s) =>
            /\ evt'.kind = "start"
            /\ sess'[s].id # sess[s].id]_vars

C5_Witness ==
  \E s \in Sessions :
    /\ sess[s].st = "FAILED" /\ sess[s].reqs = 2 /\ evt.kind = "failed"
    /\ Size(traces) = 500 /\ Size(tracePages) = 500
    /\ donwloadedRecordCount = 500

\* C6: while a download is between its start and its terminal state, the
\* buffer, the page counter and the captured totalCount it works on are
\* changed by no step of another download.
C6_ExclusiveBuffer ==
  [][\A s \in Sessions :
       (Active(s) /\ sess[s].cursor # 0 /\ evt'.sid # s) =>
         UNCHANGED <<tracePages, counter, localRecordCount>>]_vars

\* the invocation made last
Latest(s) == sess[s].id = started /\ started > 0

\* the handler of a response of invocation s has just run, as branch kind
Handled(s, kind) == evt'.sid = s /\ evt'.kind = kind

\* the records of a page pg that answers the request in flight of s
PageData(s, pg) ==
  Spread(<<>>, sess[s].id, sess[s].sent + 1, sess[s].sent + pg.n)

\* C14: in the published state a download that ended because the cap was hit
\* is told apart from one that completed: the 'maximum reached' indication
\* is shown exactly when the download ended CAPPED, and not when it
\* completed, a totalCount equal to the cap included.
C14_CappedDistinguishable ==
  \A s \in Sessions :
    (Latest(s) /\ Consistent(s) /\ sess[s].st \in {"COMPLETED", "CAPPED"}) =>
      (MaximumShown <=> sess[s].st = "CAPPED")

\* C15: the page requests of one invocation are strictly sequential: at most
\* one is in flight, the first carries no cursor, a further request is
\* issued only by the handler of the previous response, and it carries the
\* page.next of that response.
C15_SequentialRequests ==
  [][\A s \in Sessions :
       /\ sess'[s].inflight <= 1
       /\ (sess'[s].st = "wait") <=> (sess'[s].inflight = 1)
       /\ (sess'[s].st = "wait" /\ sess'[s].reqs = 1) =>
            sess'[s].cursor = NoCursor
       /\ (sess'[s].reqs # sess[s].reqs \/ sess'[s].cursor # sess[s].cursor) =>
            \/ Handled(s, "start") /\ sess'[s].reqs = 1
            \/ /\ Handled(s, "first") \/ Handled(s, "page")
               /\ sess[s].inflight = 1
               /\ sess'[s].reqs = sess[s].reqs + 1
               /\ \E pg \in ServerPages(s) :
                    pg.next # NoCursor /\ sess'[s].cursor = pg.next
    ]_vars

\* the third request of a download is in flight, with the cursor the second
\* response gave
C15_Witness ==
  \E s \in Sessions :
    /\ Active(s) /\ sess[s].reqs = 3 /\ sess[s].inflight = 1
    /\ sess[s].cursor = 3
    /\ evt.sid = s /\ evt.kind = "page"

\* C16: once a download has published its terminal snapshot, COMPLETED on
\* the first page and CAPPED included, its accumulation buffer is empty.
C16_BufferClearedAtTerminal ==
  \A s \in Sessions :
    (Latest(s) /\ sess[s].st \in {"COMPLETED", "CAPPED"}) => tracePages = <<>>

\* C17: the handler of the first page response sets pageCounter to 1, the
\* buffer to the page's records and totalCount to page.totalCount, publishes
\* traces = buffer, recordCount = totalCount and downloadedCount =
\* min(pageSize, totalCount), and requests a further page exactly when
\* page.next is present.
C17_FirstPageResponse ==
  [][\A s \in Sessions :
       Handled(s, "first") =>
         \E pg \in ServerPages(s) :
           /\ counter' = 1
           /\ tracePages' = PageData(s, pg)
           /\ localRecordCount' = pg.totalCount
           /\ traces' = tracePages'
           /\ recordCount' = pg.totalCount
           /\ donwloadedRecordCount' = Min(API_PAGE_SIZE, pg.totalCount)
           /\ (sess'[s].st = "wait") <=> (pg.next # NoCursor)
           /\ sess'[s].reqs =
                sess[s].reqs + (IF pg.next # NoCursor THEN 1 ELSE 0)
    ]_vars

\* a first page of one record, the whole answer, has been handled
C17_Witness ==
  \E s \in Sessions :
    /\ evt.sid = s /\ evt.kind = "first"
    /\ sess[s].st = "COMPLETED" /\ sess[s].reqs = 1
    /\ counter = 1 /\ recordCount = 1 /\ donwloadedRecordCount = 1
    /\ Size(traces) = 1

\* C18: the handler of the response that makes pageCounter * pageSize
\* exceed the cap does not append the page: the buffer, recordCount and
\* downloadedCount are as before, the published traces are the buffer as
\* it was, and no further page is requested.
C18_CapLeavesBuffer ==
  [][\A s \in Sessions :
       Handled(s, "capped") =>
         /\ counter' * API_PAGE_SIZE > MAX_PERMITTED_DOWNLOAD_SIZE
         /\ tracePages' = tracePages
         /\ recordCount' = recordCount
         /\ donwloadedRecordCount' = donwloadedRecordCount
         /\ traces' = tracePages
         /\ sess'[s].reqs = sess[s].reqs
         /\ sess'[s].inflight = 0
    ]_vars

\* the eleventh page, which held records, was answered and dropped
C18_Witness ==
  \E s \in Sessions :
    /\ evt.sid = s /\ evt.kind = "capped"
    /\ sess[s].sent > MAX_PERMITTED_DOWNLOAD_SIZE
    /\ Size(tracePages) = MAX_PERMITTED_DOWNLOAD_SIZE
    /\ Size(traces) = MAX_PERMITTED_DOWNLOAD_SIZE
    /\ donwloadedRecordCount = MAX_PERMITTED_DOWNLOAD_SIZE

\* C19, as claimed: after the handler of a subsequent page response that
\* neither hits the cap nor is the last page, the published trace set
\* equals the records accumulated so far, and downloadedCount is
\* pageCounter * pageSize.
C19_IntermediateSnapshot ==
  evt.kind = "page" =>
    /\ traces = tracePages
    /\ donwloadedRecordCount = counter * API_PAGE_SIZE

\* C19, amended: that handler appends the page to the buffer and publishes
\* downloadedCount = pageCounter * pageSize, and leaves the published trace
\* set and recordCount as they were.
C19_IntermediateProgress ==
  [][\A s \in Sessions :
       Handled(s, "page") =>
         \E pg \in ServerPages(s) :
           /\ counter' = counter + 1
           /\ tracePages' =
                Spread(tracePages, sess[s].id, sess[s].sent + 1,
                       sess[s].sent + pg.n)
           /\ donwloadedRecordCount' = counter' * API_PAGE_SIZE
           /\ traces' = traces
           /\ recordCount' = recordCount
    ]_vars

\* after the second page of 1200 records the buffer holds 1000 records and
\* the published trace set the 500 of the first page
C19_Witness ==
  /\ evt.kind = "page"
  /\ recordCount = 1200
  /\ Size(tracePages) = 2 * API_PAGE_SIZE
  /\ Size(traces) = API_PAGE_SIZE
  /\ donwloadedRecordCount = 2 * API_PAGE_SIZE

\* C20: the downloadedCount values one download publishes never decrease,
\* from the first page to the end, whatever totalCount is and however many
\* pages the server returns.
C20_MonotoneProgress ==
  \A s \in Sessions :
    \A i \in 1..(Len(sess[s].pub) - 1) : sess[s].pub[i] <= sess[s].pub[i + 1]

\* C21: the total is taken from the first page only: no response to a
\* request with a cursor changes the published recordCount or the total the
\* download holds, whatever page.totalCount that response reports.
C21_TotalFromFirstPage ==
  [][\A s \in Sessions :
       (Handled(s, "page") \/ Handled(s, "capped") \/ Handled(s, "completed")) =>
         /\ recordCount' = recordCount
         /\ localRecordCount' = localRecordCount
    ]_vars

\* a later page that reported totalCount 0 was handled, and the 700 of the
\* first page is still the published recordCount
C21_Witness ==
  /\ evt.kind \in {"page", "completed"}
  /\ evt.tc = 0
  /\ recordCount = 700
  /\ localRecordCount = 700

\* C28: when a second download is started before the first has ended, and
\* both have ended, the published state is coherent: the published traces
\* all come from one of the two queries, recordCount is the totalCount of
\* that query, and if that download COMPLETED the number of published
\* traces, downloadedCount and recordCount are equal.
C28_CoherentAfterOverlap ==
  (started = 2 /\ \A s \in Sessions : sess[s].st = "COMPLETED") =>
    \E s \in Sessions :
      /\ \A i \in 1..Len(traces) : traces[i].sid = sess[s].id
      /\ recordCount = sess[s].total
      /\ sess[s].st = "COMPLETED" =>
           /\ Size(traces) = donwloadedRecordCount
           /\ donwloadedRecordCount = recordCount

\* C29: however the page responses of overlapping downloads interleave, the
\* shared buffer never holds more than pageCounter * pageSize records nor
\* more than the cap, and no published trace set exceeds the cap.
C29_BufferWithinCap ==
  /\ Size(tracePages) <= counter * API_PAGE_SIZE
  /\ Size(tracePages) <= MAX_PERMITTED_DOWNLOAD_SIZE
  /\ Size(traces) <= MAX_PERMITTED_DOWNLOAD_SIZE

\* two downloads overlap, the buffer holds records of both, less than a
\* page short of the cap, and a response has just been dropped at the cap
C29_Witness ==
  /\ \A s \in Sessions : sess[s].st # "idle"
  /\ evt.kind = "capped"
  /\ Size(tracePages) > MAX_PERMITTED_DOWNLOAD_SIZE - API_PAGE_SIZE
  /\ Size(traces) = Size(tracePages)
  /\ \E i, j \in 1..Len(tracePages) : tracePages[i].sid # tracePages[j].sid

\* C30, its bound: a download issues at most floor(cap / pageSize) + 1 page
\* requests, however long the server goes on returning a page.next.
C30_RequestBound ==
  \A s \in Sessions :
    sess[s].reqs <= (MAX_PERMITTED_DOWNLOAD_SIZE \div API_PAGE_SIZE) + 1

\* the responses invocation s has handled
Responses(s) ==
  IF sess[s].st = "FAILED" THEN sess[s].reqs - 1
  ELSE sess[s].reqs - sess[s].inflight

\* C31: when downloads are serialized, what a download has published is
\* determined by its own page responses alone: after its first response the
\* page counter, the captured and the published total, the buffer, the
\* published traces and downloadedCount are those of its own totalCount and
\* of the number of responses it has handled, whatever buffer, counter and
\* total the previous download (CAPPED, FAILED or COMPLETED on one page) left
\* behind.
C31_NoLeakAcrossDownloads ==
  \A s \in Sessions :
    (Latest(s) /\ Responses(s) >= 1) =>
      LET T == sess[s].total
          h == Responses(s)
          got == Min(T, Min(h, MAX_PERMITTED_DOWNLOAD_SIZE \div API_PAGE_SIZE)
                          * API_PAGE_SIZE)
          st == sess[s].st
      IN /\ counter = h
         /\ localRecordCount = T
         /\ recordCount = T
         /\ traces = RecordsOf(sess[s].id,
                               IF st = "COMPLETED" THEN T
                               ELSE IF st = "CAPPED" THEN got
                               ELSE Min(T, API_PAGE_SIZE))
         /\ donwloadedRecordCount = (IF st = "COMPLETED" THEN T ELSE got)
         /\ tracePages = (IF st = "COMPLETED" /\ h > 1 THEN <<>>
                          ELSE RecordsOf(sess[s].id, got))

\* a download of 1200 records, started when the previous one had left 5000
\* records in the buffer and 11 in the page counter, has completed
C31_Witness ==
  \E s \in Sessions :
    /\ Latest(s) /\ sess[s].st = "COMPLETED" /\ sess[s].total = 1200
    /\ leftBehind.buffer = MAX_PERMITTED_DOWNLOAD_SIZE
    /\ leftBehind.counter = 11
    /\ leftBehind.total = 20000
    /\ Size(traces) = 1200
    /\ donwloadedRecordCount = 1200

\* ========================================================================
\* Properties of the filter pipeline


\* a record matches a selection when it matches one of its values
MatchesCircuit(t, sel) == \E c \in Range(sel) : t.toCct = c.toCct
MatchesPort(t, sel) ==
  \E q \in Range(sel) : <<t.port, t.reportFrom>> = <<q.port, q.reportFrom>>
MatchesCallsigns(t, sel) == \E c \in Range(sel) : {t.srce, t.dest} = {c[1], c[2]}

NoFlagSet ==
  ~(suppressNodes \/ suppressUI \/ suppressNetRom \/ suppressInp3
      \/ showOnlyFRMR \/ showOnlyRoutingInfo)

NoSelection ==
  /\ selectedNetRomCircuits = <<>>
  /\ selectedPorts = <<>>
  /\ selectedL2Callsigns = <<>>

\* C7: after the facet-intersection stage exactly the records remain that,
\* for every dimension with a non-empty selection, match one of its selected
\* values (circuit: equal toCct; port: equal (port, reportFrom)); with no
\* selection and no flag the output is the input.
C7_FacetIntersection ==
  phase >= 1 =>
    /\ iteratingLocalFilter =
         SelectSeq(appTraces, LAMBDA t :
           /\ selectedNetRomCircuits # <<>> => MatchesCircuit(t, selectedNetRomCircuits)
           /\ selectedPorts # <<>> => MatchesPort(t, selectedPorts)
           /\ selectedL2Callsigns # <<>> => MatchesCallsigns(t, selectedL2Callsigns))
    /\ (NoSelection /\ NoFlagSet) => filteredTraces = appTraces

\* C8: running the pipeline on its own output with the same criteria
\* returns that output unchanged.
C8_Idempotent ==
  phase = 2 => filteredTraces = prevFiltered

C8_Witness ==
  /\ phase = 2
  /\ Len(filteredTraces) = 2
  /\ selectedPorts # <<>>
  /\ suppressNodes /\ suppressInp3
  /\ filteredTraces = prevFiltered

\* a is b with some elements left out
IsSubsequence(a, b) ==
  LET RECURSIVE Sub(_, _)
      Sub(i, j) ==
        IF i > Len(a) THEN TRUE
        ELSE IF j > Len(b) THEN FALSE
        ELSE IF a[i] = b[j] THEN Sub(i + 1, j + 1)
        ELSE Sub(i, j + 1)
  IN Sub(1, 1)

\* C9: the output of the pipeline is its input with some records left out:
\* only records of the input, none more often than in the input, in the
\* input's order.
C9_Subsequence ==
  phase >= 1 => IsSubsequence(filteredTraces, appTraces)

C9_Witness ==
  /\ phase = 1
  /\ Len(appTraces) = 2 /\ appTraces[1] # appTraces[2]
  /\ selectedPorts # <<>>
  /\ filteredTraces = appTraces

FlagMatches(t) ==
  \/ suppressNetRom /\ t.ptcl = "NET/ROM"
  \/ suppressInp3 /\ t.type = "INP3"
  \/ suppressNodes /\ t.type = "NODES"
  \/ suppressUI /\ t.l2Type = "UI"

InView(t) ==
  /\ showOnlyRoutingInfo => t.l3type = "Routing info"
  /\ showOnlyFRMR => t.l2Type = "FRMR"

\* C10: of the records that reach the suppression stage, exactly those are
\* dropped that an active suppression flag matches (suppressNetRom: ptcl
\* NET/ROM, suppressInp3: type INP3, suppressNodes: type NODES, suppressUI:
\* l2Type UI); a UI record of type NODES is dropped when suppressUI or
\* suppressNodes is set and is kept when neither is.
C10_SuppressionIndependence ==
  phase >= 1 =>
    /\ filteredTraces =
         SelectSeq(iteratingLocalFilter, LAMBDA t : InView(t) /\ ~FlagMatches(t))
    /\ \A i \in 1..Len(iteratingLocalFilter) :
         LET t == iteratingLocalFilter[i]
         IN (t.l2Type = "UI" /\ t.type = "NODES") =>
              /\ (suppressUI \/ suppressNodes) => t \notin Range(filteredTraces)
              /\ (~suppressUI /\ ~suppressNodes /\ ~suppressInp3
                    /\ ~suppressNetRom /\ InView(t)) =>
                   t \in Range(filteredTraces)

C10_Witness ==
  /\ phase = 1
  /\ suppressUI /\ ~suppressNodes
  /\ \E i \in 1..Len(appTraces) :
       /\ appTraces[i].l2Type = "UI" /\ appTraces[i].type = "NODES"
       /\ appTraces[i] \in Range(iteratingLocalFilter)
       /\ appTraces[i] \notin Range(filteredTraces)
  /\ Len(filteredTraces) = 1

\* ========================================================================
\* Properties of the facet extraction

NoDuplicates(seq) ==
  \A i, j \in 1..Len(seq) : i # j => seq[i] # seq[j]

\* C11: after findSeenCallsignsAndNetRom has run, none of the circuit, port
\* and callsign-pair facet collections holds two structurally equal entries;
\* records that differ only outside the facet tuple give one facet.
C11_FacetsDistinct ==
  phase >= 1 =>
    /\ NoDuplicates(seenNetRomCircuits)
    /\ NoDuplicates(seenPorts)
    /\ NoDuplicates(seenL2Callsigns)

\* two records of circuit 10 that differ in time, port and direction were
\* extracted into one circuit and one callsign pair
C11_Witness ==
  /\ phase = 1
  /\ Len(appTraces) >= 2
  /\ appTraces[1].toCct = 10 /\ appTraces[2].toCct = 10
  /\ appTraces[1].time # appTraces[2].time
  /\ Len(SelectSeq(seenNetRomCircuits, LAMBDA c : c.toCct = 10)) = 1
  /\ Len(SelectSeq(seenL2Callsigns, LAMBDA c : c = <<"G8PZT", "GB7NBH">>)) = 1

\* C12: the circuit facet collection is in ascending order of toCct, compared
\* as numbers, whatever the order of the records in the trace set.
C12_CircuitsSorted ==
  phase >= 1 =>
    \A i, j \in 1..Len(seenNetRomCircuits) :
      i < j => seenNetRomCircuits[i].toCct <= seenNetRomCircuits[j].toCct

\* circuits met in the order 30, 10, 20 are listed as 10, 20, 30
C12_Witness ==
  /\ phase = 1
  /\ Len(appTraces) = 3
  /\ <<appTraces[1].toCct, appTraces[2].toCct, appTraces[3].toCct>> = <<30, 10, 20>>
  /\ Len(seenNetRomCircuits) = 3
  /\ <<seenNetRomCircuits[1].toCct, seenNetRomCircuits[2].toCct,
       seenNetRomCircuits[3].toCct>> = <<10, 20, 30>>

\* C13: whenever the published trace set or a criteria value has changed,
\* the filtered output equals the pipeline applied to the current traces
\* and criteria, and each facet collection equals the facet extraction of
\* the current traces, an empty trace set and one without NET/ROM circuit
\* records included.
C13_RecomputedFromScratch ==
  /\ filteredTraces =
       Step3(Step2(appTraces, selectedNetRomCircuits, selectedPorts,
                   selectedL2Callsigns),
             showOnlyRoutingInfo, showOnlyFRMR, suppressNetRom, suppressInp3,
             suppressNodes, suppressUI)
  /\ seenNetRomCircuits = SeenCcts(appTraces, Len(appTraces))
  /\ seenPorts = SeenPortsOf(appTraces)
  /\ seenL2Callsigns = SeenL2CallsignsOf(appTraces)

\* ========================================================================
\* Properties of the exclusive views and of the callsign match

\* C22: with showOnlyRoutingInfo set no record with l3type other than
\* 'Routing info' is in the output, with showOnlyFRMR set no record with
\* l2Type other than 'FRMR'; with both set only records in both views
\* are; with neither set the views drop nothing, so the output is what the
\* suppression flags leave of the input of STEP 3.
C22_ExclusiveViews ==
  phase >= 1 =>
    /\ showOnlyRoutingInfo =>
         \A t \in Range(filteredTraces) : t.l3type = "Routing info"
    /\ showOnlyFRMR =>
         \A t \in Range(filteredTraces) : t.l2Type = "FRMR"
    /\ \A t \in Range(iteratingLocalFilter) :
         ((showOnlyRoutingInfo => t.l3type = "Routing info")
            /\ (showOnlyFRMR => t.l2Type = "FRMR")
            /\ ~FlagMatches(t)) => t \in Range(filteredTraces)
    /\ (~showOnlyRoutingInfo /\ ~showOnlyFRMR) =>
         filteredTraces =
           SelectSeq(iteratingLocalFilter, LAMBDA t : ~FlagMatches(t))

\* both views are set, the input of STEP 3 holds a FRMR and a routing-info
\* record, each in one view only, and the output is empty
C22_Witness ==
  /\ phase = 1
  /\ showOnlyRoutingInfo /\ showOnlyFRMR
  /\ \E t \in Range(iteratingLocalFilter) :
       t.l2Type = "FRMR" /\ t.l3type # "Routing info"
  /\ \E t \in Range(iteratingLocalFilter) :
       t.l3type = "Routing info" /\ t.l2Type # "FRMR"
  /\ filteredTraces = <<>>

\* the selected pairs, each the other way round
SwappedPairs(sel) == [i \in 1..Len(sel) |-> <<sel[i][2], sel[i][1]>>]

\* C23: the callsign match is symmetric: a record passes the callsign
\* selection iff {srce, dest} = {a, b} for a selected pair (a, b), and
\* selecting the pairs the other way round gives the same output of STEP 2
\* and of STEP 3.
C23_SymmetricCallsignMatch ==
  phase = 1 =>
    LET b == Step2(appTraces, selectedNetRomCircuits, selectedPorts, <<>>)
        other == Step2(appTraces, selectedNetRomCircuits, selectedPorts,
                       SwappedPairs(selectedL2Callsigns))
    IN /\ Len(selectedL2Callsigns) > 0 =>
            iteratingLocalFilter =
              SelectSeq(b, LAMBDA t :
                \E i \in 1..Len(selectedL2Callsigns) :
                  {t.srce, t.dest} =
                    {selectedL2Callsigns[i][1], selectedL2Callsigns[i][2]})
       /\ iteratingLocalFilter = other
       /\ filteredTraces =
            Step3(other, showOnlyRoutingInfo, showOnlyFRMR, suppressNetRom,
                  suppressInp3, suppressNodes, suppressUI)

\* the pair (GB7NBH, G8PZT) is selected and a record from G8PZT to GB7NBH
\* is in the output
C23_Witness ==
  /\ phase = 1
  /\ selectedL2Callsigns = <<<<"GB7NBH", "G8PZT">>>>
  /\ \E t \in Range(filteredTraces) : t.srce = "G8PZT" /\ t.dest = "GB7NBH"

\* ========================================================================
\* Properties of the callsign and circuit facets

\* [srce, dest] of every trace, deduplicated in the order met
PairsAsEncountered(seq) ==
  LET RECURSIVE Go(_)
      Go(k) ==
        IF k = 0 THEN <<>>
        ELSE LET prev == Go(k - 1)
                 pair == <<seq[k].srce, seq[k].dest>>
             IN IF pair \in Range(prev) THEN prev ELSE Append(prev, pair)
  IN Go(Len(seq))

\* the first trace between the two callsigns of a pair, in either direction
FirstBetween(seq, pair) ==
  CHOOSE k \in 1..Len(seq) :
    /\ {seq[k].srce, seq[k].dest} = {pair[1], pair[2]}
    /\ \A j \in 1..(k - 1) : {seq[j].srce, seq[j].dest} # {pair[1], pair[2]}

\* C24, as claimed: the callsign-pair facets are the pairs (srce, dest) as
\* encountered, deduplicated without canonicalization, in first-seen order;
\* records (A, B) and (B, A) give the two facets (A, B) and (B, A).
C24_PairsNotCanonicalized ==
  phase = 1 => seenL2Callsigns = PairsAsEncountered(appTraces)

\* C24, amended: every callsign-pair facet is the pair of a record put in
\* sort() order, every record has its facet, no facet is listed twice, and
\* the facets are in the order their pairs were first met in either
\* direction; records (A, B) and (B, A) give one facet.
C24_PairsCanonicalized ==
  phase = 1 =>
    /\ \A i \in 1..Len(seenL2Callsigns) :
         /\ CallRank(seenL2Callsigns[i][1]) <= CallRank(seenL2Callsigns[i][2])
         /\ \E k \in 1..Len(appTraces) :
              {appTraces[k].srce, appTraces[k].dest} =
                {seenL2Callsigns[i][1], seenL2Callsigns[i][2]}
    /\ \A k \in 1..Len(appTraces) :
         \E i \in 1..Len(seenL2Callsigns) :
           {appTraces[k].srce, appTraces[k].dest} =
             {seenL2Callsigns[i][1], seenL2Callsigns[i][2]}
    /\ NoDuplicates(seenL2Callsigns)
    /\ \A i, j \in 1..Len(seenL2Callsigns) :
         i < j => FirstBetween(appTraces, seenL2Callsigns[i])
                    < FirstBetween(appTraces, seenL2Callsigns[j])

\* a record from GB7NBH to G8PZT, then one from G8PZT to GB7NBH, then one
\* from MB7NPW to G8PZT: two facets, (G8PZT, GB7NBH) and (G8PZT, MB7NPW)
C24_Witness ==
  /\ phase = 1
  /\ Len(appTraces) = 3
  /\ appTraces[1].srce = "GB7NBH" /\ appTraces[1].dest = "G8PZT"
  /\ appTraces[2].srce = "G8PZT" /\ appTraces[2].dest = "GB7NBH"
  /\ appTraces[3].srce = "MB7NPW" /\ appTraces[3].dest = "G8PZT"
  /\ seenL2Callsigns = <<<<"G8PZT", "GB7NBH">>, <<"G8PZT", "MB7NPW">>>>

\* C25: the circuit facets are exactly the {toCct, l3src, l3dst} of the
\* NET/ROM records whose toCct is present, a toCct of 0 included.
C25_CircuitFacetsComplete ==
  phase = 1 =>
    /\ \A k \in 1..Len(appTraces) :
         (appTraces[k].ptcl = "NET/ROM" /\ appTraces[k].toCct # NoCct) =>
           Circuit(appTraces[k].toCct, appTraces[k].l3src, appTraces[k].l3dst)
             \in Range(seenNetRomCircuits)
    /\ \A c \in Range(seenNetRomCircuits) :
         \E k \in 1..Len(appTraces) :
           /\ appTraces[k].ptcl = "NET/ROM" /\ appTraces[k].toCct # NoCct
           /\ c = Circuit(appTraces[k].toCct, appTraces[k].l3src,
                          appTraces[k].l3dst)

\* C26: the facet collections depend on the published trace set only: a
\* change of a criteria value with the trace set unchanged leaves the three
\* collections as they are, and an extraction over a trace set gives the
\* same collections every time it runs over that trace set.
C26_FacetsDependOnTracesOnly ==
  [][/\ appTraces' = appTraces =>
          UNCHANGED <<seenNetRomCircuits, seenPorts, seenL2Callsigns>>
     /\ Len(appTraces') > 0 =>
          /\ seenNetRomCircuits' = SeenCcts(appTraces', Len(appTraces'))
          /\ seenPorts' = SeenPortsOf(appTraces')
          /\ seenL2Callsigns' = SeenL2CallsignsOf(appTraces')
    ]_vars

\* C32: whenever showOnlyFRMR is set the 'Show Only FRMR' switch is offered,
\* after any sequence of published trace sets and criteria changes, so the
\* flag can always be cleared again.
C32_FRMRSwitchOffered ==
  showOnlyFRMR => ShowOnlyFRMROffered

\* ========================================================================
\* Properties of the pipeline as a function of the criteria

\* filteredTraces after filterTraces() on the trace set tr
Pipeline(tr, selC, selP, selL, onlyRI, onlyFRMR, sNetRom, sInp3, sNodes, sUI) ==
  Step3(Step2(tr, selC, selP, selL), onlyRI, onlyFRMR, sNetRom, sInp3, sNodes,
        sUI)

\* the values a selection can be extended by
CircuitValues == UNION {Range(sel) : sel \in CircuitSelections}
PortValues == UNION {Range(sel) : sel \in PortSelections}
CallsignValues == UNION {Range(sel) : sel \in CallsignSelections}

\* C34: filterTraces is monotone in its criteria: with further suppression
\* or exclusive-view flags set, or with an empty selection made non-empty,
\* the output is the output with some records left out; with a further
\* value added to a non-empty selection, the output holds every record it
\* held.
C34_MonotoneCriteria ==
  phase = 1 =>
    LET selC == selectedNetRomCircuits
        selP == selectedPorts
        selL == selectedL2Callsigns
        Flags(onlyRI, onlyFRMR, sNetRom, sInp3, sNodes, sUI) ==
          Pipeline(appTraces, selC, selP, selL, onlyRI, onlyFRMR, sNetRom,
                   sInp3, sNodes, sUI)
        Sel(c, p, l) ==
          Pipeline(appTraces, c, p, l, showOnlyRoutingInfo, showOnlyFRMR,
                   suppressNetRom, suppressInp3, suppressNodes, suppressUI)
    IN /\ filteredTraces = Sel(selC, selP, selL)
       /\ \A onlyRI, onlyFRMR, sNetRom, sInp3, sNodes, sUI \in BOOLEAN :
            ( /\ showOnlyRoutingInfo => onlyRI
              /\ showOnlyFRMR => onlyFRMR
              /\ suppressNetRom => sNetRom
              /\ suppressInp3 => sInp3
              /\ suppressNodes => sNodes
              /\ suppressUI => sUI ) =>
              IsSubsequence(Flags(onlyRI, onlyFRMR, sNetRom, sInp3, sNodes, sUI),
                            filteredTraces)
       /\ selC = <<>> =>
            \A c \in CircuitSelections :
              IsSubsequence(Sel(c, selP, selL), filteredTraces)
       /\ selP = <<>> =>
            \A q \in PortSelections :
              IsSubsequence(Sel(selC, q, selL), filteredTraces)
       /\ selL = <<>> =>
            \A l \in CallsignSelections :
              IsSubsequence(Sel(selC, selP, l), filteredTraces)
       /\ selC # <<>> =>
            \A c \in CircuitValues :
              IsSubsequence(filteredTraces, Sel(Append(selC, c), selP, selL))
       /\ selP # <<>> =>
            \A q \in PortValues :
              IsSubsequence(filteredTraces, Sel(selC, Append(selP, q), selL))
       /\ selL # <<>> =>
            \A l \in CallsignValues :
              IsSubsequence(filteredTraces, Sel(selC, selP, Append(selL, l)))

\* one record of two is in the output; with suppressNetRom set as well it
\* would be dropped, and with the pair (GB7NBH, G8PZT) added to the selected
\* pairs the second record would pass too
C34_Witness ==
  /\ phase = 1
  /\ Len(appTraces) = 2
  /\ Len(filteredTraces) = 1
  /\ ~suppressNetRom
  /\ Pipeline(appTraces, selectedNetRomCircuits, selectedPorts,
              selectedL2Callsigns, showOnlyRoutingInfo, showOnlyFRMR, TRUE,
              suppressInp3, suppressNodes, suppressUI) = <<>>
  /\ selectedPorts # <<>>
  /\ selectedL2Callsigns # <<>>
  /\ Len(Pipeline(appTraces, selectedNetRomCircuits, selectedPorts,
                  Append(selectedL2Callsigns, <<"GB7NBH", "G8PZT">>),
                  showOnlyRoutingInfo, showOnlyFRMR, suppressNetRom,
                  suppressInp3, suppressNodes, suppressUI)) = 2

\* the output of the pipeline with nothing but the given selections
Selecting(tr, selC, selP, selL) ==
  Pipeline(tr, selC, selP, selL, FALSE, FALSE, FALSE, FALSE, FALSE, FALSE)

\* C35: every facet offered selects something: for the published trace set
\* and every facet f in the circuit, port or callsign-pair collection the
\* extractor has produced for it, filterTraces on that trace set with only f
\* selected and all flags false gives a non-empty output that holds every
\* record f is derived from.
C35_FacetsSelectSomething ==
  Len(appTraces) > 0 =>
    /\ \A f \in Range(seenNetRomCircuits) :
         LET out == Selecting(appTraces, <<f>>, <<>>, <<>>)
         IN /\ out # <<>>
            /\ IsSubsequence(
                 SelectSeq(appTraces, LAMBDA t :
                   /\ t.ptcl = "NET/ROM" /\ Truthy(t.toCct)
                   /\ Circuit(t.toCct, t.l3src, t.l3dst) = f), out)
    /\ \A f \in Range(seenPorts) :
         LET out == Selecting(appTraces, <<>>, <<f>>, <<>>)
         IN /\ out # <<>>
            /\ IsSubsequence(
                 SelectSeq(appTraces, LAMBDA t : Port(t.port, t.reportFrom) = f),
                 out)
    /\ \A f \in Range(seenL2Callsigns) :
         LET out == Selecting(appTraces, <<>>, <<>>, <<f>>)
         IN /\ out # <<>>
            /\ IsSubsequence(
                 SelectSeq(appTraces, LAMBDA t : SortedPair(t.srce, t.dest) = f),
                 out)

\* ========================================================================
\* Properties of the published trace set

\* C36: the published trace set is replaced as a whole and never changed in
\* part: traces changes only in the handlers that call setTraces (first
\* page, cap, last page) and is then the buffer of that moment; while later
\* pages are appended to the buffer traces stays as it was; and a run of the
\* filter and the facet extraction on changed criteria leaves both the
\* published trace set and the trace set App was given as they were.
C36_PublishedNotMutated ==
  [][/\ traces' # traces =>
          \E s \in Sessions :
            \/ Handled(s, "first") /\ traces' = tracePages'
            \/ Handled(s, "capped") /\ traces' = tracePages
            \/ /\ Handled(s, "completed")
               /\ \E pg \in ServerPages(s) :
                    traces' = Spread(tracePages, sess[s].id, sess[s].sent + 1,
                                     sess[s].sent + pg.n)
     /\ \A s \in Sessions :
          (sess'[s] # sess[s] /\ Handled(s, "page")) =>
            /\ Size(tracePages') > Size(tracePages)
            /\ traces' = traces
     /\ criteriaVars' # criteriaVars =>
          /\ appTraces' = appTraces
          /\ traces' = traces
    ]_vars

\* the third page has been appended to the buffer while the published trace
\* set is still the first page, and the filter has run on a trace set given
\* to App and dropped its record
C36_Witness ==
  /\ evt.kind = "page"
  /\ Size(tracePages) = 3 * API_PAGE_SIZE
  /\ Size(traces) = API_PAGE_SIZE
  /\ Len(appTraces) = 1
  /\ filteredTraces = <<>>
  /\ suppressUI

\* ========================================================================
\* Properties of the query string

\* C33: the query string round-trips the criteria: loading the page from
\* what regenerateURL wrote gives the same suppressNodes, suppressUI,
\* suppressNetRom, suppressInp3, showOnlyRoutingInfo and showOnlyFRMR and
\* the same three selections as were in force when it was written.
C33_QueryStringRoundTrip ==
  [][(phase = 1 /\ phase' = 2) => UNCHANGED criteriaVars]_vars

\* ========================================================================
\* Properties of the search form

\* C27: the time range is checked before the download is started: while
\* traceStart is after traceEnd no step calls getTraces, so the handler of
\* Fetch Data leaves the published state and the downloads as they are.
C27_RangeValidated ==
  [][traceStart > traceEnd => started' = started]_vars

====
